---- MODULE Spec2Model ----
(***************************************************************************)
(* A model of unidecode.js: the transliteration entry point unidecode, its *)
(* per-character replacer with the lazily filled page cache dataCache, and *)
(* the spacing resolver resolveSpacing.                                    *)
(*                                                                         *)
(* A string is a sequence of code points (naturals).  A lone surrogate is  *)
(* a code point of its own, as it is for the /u regular expression and for *)
(* codePointAt; the input sets never put a high surrogate right before a   *)
(* low one, because JavaScript would read the two as one character.        *)
(***************************************************************************)
EXTENDS Integers, Sequences, FiniteSets, TLC

VARIABLES
    tables,      \* which table store ./data holds: it never changes
    dataCache,   \* row -> page, the module-level cache (line 23)
    requireCount,\* row -> how many times require() was called for its page
    history      \* the calls made since the caller last cleared its results

vars == <<tables, dataCache, requireCount, history>>

(***************************************************************************)
(* Characters the code names.                                              *)
(***************************************************************************)
X80 == 128
X81 == 129
EM_DASH == 8212
DIAERESIS == 776
SP == 32
HYPHEN == 45
UNDERSCORE == 95
LETTER_E == 69
LETTER_e == 101
PAGE_SIZE == 256

\* the JavaScript value undefined, where a string or an option is expected,
\* is the empty tuple; a defined value v is the one-element tuple <<v>>
undefined == << >>

Some(v) == <<v>>

\* \w of a JavaScript regular expression without the i and u flags
isWord(c) == c \in (48..57) \cup (65..90) \cup {95} \cup (97..122)

\* \s of a JavaScript regular expression, which is also what trim() removes
isSpace(c) ==
    c \in {9, 10, 11, 12, 13, 32, 160, 5760, 8232, 8233, 8239, 8287, 12288, 65279}
          \cup (8192..8202)

\* /^\w+$/.test(s)
onlyWordChars(s) == Len(s) > 0 /\ \A i \in 1..Len(s) : isWord(s[i])

RECURSIVE trimStart(_)
trimStart(s) ==
    IF s # << >> /\ isSpace(Head(s)) THEN trimStart(Tail(s)) ELSE s

RECURSIVE trimEnd(_)
trimEnd(s) ==
    IF s # << >> /\ isSpace(s[Len(s)])
    THEN trimEnd(SubSeq(s, 1, Len(s) - 1))
    ELSE s

\* String.prototype.trim
trim(s) == trimEnd(trimStart(s))

At(s, i) == IF i \in 1..Len(s) THEN s[i] ELSE -1

(***************************************************************************)
(* resolveSpacing: seven global replaces, each scanning left to right and  *)
(* resuming after the end of a match.  The second argument of every pass   *)
(* is the position the scan has reached.                                   *)
(***************************************************************************)

\* hyphenPass with the two \x80 left out of the pattern: /(\w)(--)(\w)/g
RECURSIVE hyphenPassNoMarkers(_, _)
hyphenPassNoMarkers(s, i) ==
    IF i > Len(s) THEN << >>
    ELSE IF /\ isWord(s[i])
            /\ At(s, i + 1) = HYPHEN
            /\ At(s, i + 2) = HYPHEN
            /\ isWord(At(s, i + 3))
         THEN <<s[i], SP, HYPHEN, SP, s[i + 3]>> \o hyphenPassNoMarkers(s, i + 4)
         ELSE <<s[i]>> \o hyphenPassNoMarkers(s, i + 1)

\* .replace(/(\w)(\x80--\x80)(\w)/g, (_, p1, _2, p3) => p1 + ' - ' + p3)
RECURSIVE hyphenPass(_, _)
hyphenPass(s, i) ==
    IF i > Len(s) THEN << >>
    ELSE IF /\ isWord(s[i])
            /\ At(s, i + 1) = X80
            /\ At(s, i + 2) = HYPHEN
            /\ At(s, i + 3) = HYPHEN
            /\ At(s, i + 4) = X80
            /\ isWord(At(s, i + 5))
         THEN <<s[i], SP, HYPHEN, SP, s[i + 5]>> \o hyphenPass(s, i + 6)
         ELSE <<s[i]>> \o hyphenPass(s, i + 1)

\* .replace(/\x80(?!\w)/g, "")
RECURSIVE dropUnattached(_, _)
dropUnattached(s, i) ==
    IF i > Len(s) THEN << >>
    ELSE IF s[i] = X80 /\ ~isWord(At(s, i + 1))
         THEN dropUnattached(s, i + 1)
         ELSE <<s[i]>> \o dropUnattached(s, i + 1)

\* markBoundary with the $1 left out of the replacement: "\x81"
RECURSIVE markBoundaryNoGroup(_, _)
markBoundaryNoGroup(s, i) ==
    IF i > Len(s) THEN << >>
    ELSE IF (s[i] = X80 \/ isWord(s[i])) /\ At(s, i + 1) = X80
         THEN <<X81>> \o markBoundaryNoGroup(s, i + 2)
         ELSE <<s[i]>> \o markBoundaryNoGroup(s, i + 1)

\* .replace(/\x80\x80|(\w)\x80/g, "$1\x81")
RECURSIVE markBoundary(_, _)
markBoundary(s, i) ==
    IF i > Len(s) THEN << >>
    ELSE IF s[i] = X80 /\ At(s, i + 1) = X80
         THEN <<X81>> \o markBoundary(s, i + 2)
         ELSE IF isWord(s[i]) /\ At(s, i + 1) = X80
              THEN <<s[i], X81>> \o markBoundary(s, i + 2)
              ELSE <<s[i]>> \o markBoundary(s, i + 1)

\* .replace(/\x80/g, "")
RECURSIVE dropX80(_, _)
dropX80(s, i) ==
    IF i > Len(s) THEN << >>
    ELSE IF s[i] = X80
         THEN dropX80(s, i + 1)
         ELSE <<s[i]>> \o dropX80(s, i + 1)

RECURSIVE stripLeadingX81(_)
stripLeadingX81(s) ==
    IF s # << >> /\ Head(s) = X81 THEN stripLeadingX81(Tail(s)) ELSE s

RECURSIVE stripTrailingX81(_)
stripTrailingX81(s) ==
    IF s # << >> /\ s[Len(s)] = X81
    THEN stripTrailingX81(SubSeq(s, 1, Len(s) - 1))
    ELSE s

\* .replace(/^\x81+|\x81+$/g, "")
stripEdges(s) == stripTrailingX81(stripLeadingX81(s))

\* .replace(/\x81 \x81/g, "  ")
RECURSIVE doubleGap(_, _)
doubleGap(s, i) ==
    IF i > Len(s) THEN << >>
    ELSE IF s[i] = X81 /\ At(s, i + 1) = SP /\ At(s, i + 2) = X81
         THEN <<SP, SP>> \o doubleGap(s, i + 3)
         ELSE <<s[i]>> \o doubleGap(s, i + 1)

\* the first position at or after i that holds no \x81
RECURSIVE endOfX81Run(_, _)
endOfX81Run(s, i) ==
    IF At(s, i) = X81 THEN endOfX81Run(s, i + 1) ELSE i

\* collapseX81 with the ? left out of the pattern: /\s\x81+/g
RECURSIVE collapseX81AfterSpace(_, _)
collapseX81AfterSpace(s, i) ==
    IF i > Len(s) THEN << >>
    ELSE IF isSpace(s[i]) /\ At(s, i + 1) = X81
         THEN <<SP>> \o collapseX81AfterSpace(s, endOfX81Run(s, i + 1))
         ELSE <<s[i]>> \o collapseX81AfterSpace(s, i + 1)

\* .replace(/\s?\x81+/g, " ")
RECURSIVE collapseX81(_, _)
collapseX81(s, i) ==
    IF i > Len(s) THEN << >>
    ELSE IF isSpace(s[i]) /\ At(s, i + 1) = X81
         THEN <<SP>> \o collapseX81(s, endOfX81Run(s, i + 1))
         ELSE IF s[i] = X81
              THEN <<SP>> \o collapseX81(s, endOfX81Run(s, i))
              ELSE <<s[i]>> \o collapseX81(s, i + 1)

resolveSpacing(str) ==
    LET p1 == hyphenPass(str, 1)
        p2 == dropUnattached(p1, 1)
        p3 == markBoundary(p2, 1)
        p4 == dropX80(p3, 1)
        p5 == stripEdges(p4)
        p6 == doubleGap(p5, 1)
    IN  collapseX81(p6, 1)

(***************************************************************************)
(* The table store ./data: one module per row, named by pageFile.  The     *)
(* data files are not part of the source at hand; the store is modelled    *)
(* from the interface the code and the specification give it: a module is  *)
(* either missing (require throws) or an array of at most 256 ASCII        *)
(* strings.  Two stores are modelled: "full" holds the pages below, one of *)
(* them short; "none" holds no page at all.                                *)
(***************************************************************************)
Tables == {"full", "none"}

\* Number.prototype.toString(16) of a natural, as a string of characters
hexDigit(d) == IF d < 10 THEN 48 + d ELSE 87 + d

RECURSIVE toHex(_)
toHex(n) == IF n < 16 THEN <<hexDigit(n)>> ELSE toHex(n \div 16) \o <<hexDigit(n % 16)>>

\* A row is kept doubled, so that the row 0.5 of German mode is the
\* integer 1 and every other row 2 * high: (0.5).toString(16) is "0.8".
\* 'x' + (row < 0x10 ? '0' : '') + row.toString(16)
pageFile(row) ==
    <<120>> \o (IF row < 32 THEN <<48>> ELSE << >>) \o toHex(row \div 2)
            \o (IF row % 2 = 1 THEN <<46, 56>> ELSE << >>)

\* "[?]", the entry of a character the tables do not transliterate
UNKNOWN == <<91, 63, 93>>

\* x00: the controls give "", U+00A0 " ", U+00A9 "(c)", U+00BD "1/2",
\* U+00E4 "a", U+00E9 "e"
X00 ==
    [i \in 1..256 |->
        CASE i - 1 \in 128..159 -> << >>
          [] i - 1 = 160 -> <<32>>
          [] i - 1 = 169 -> <<40, 99, 41>>
          [] i - 1 = 189 -> <<49, 47, 50>>
          [] i - 1 = 228 -> <<97>>
          [] i - 1 = 233 -> <<101>>
          [] OTHER -> UNKNOWN]

\* x00.8, the German row: U+00E4 gives "ae"
X00_8 == [X00 EXCEPT ![229] = <<97, 101>>]

\* x03, one entry short: U+0308 gives ""
X03 == [i \in 1..255 |-> IF i - 1 = 8 THEN << >> ELSE UNKNOWN]

\* x20: U+2014 gives "--"
X20 == [i \in 1..256 |-> IF i - 1 = 20 THEN <<45, 45>> ELSE UNKNOWN]

\* x4e: U+4EAC gives "Jing "
X4E == [i \in 1..256 |-> IF i - 1 = 172 THEN <<74, 105, 110, 103, 32>> ELSE UNKNOWN]

\* x1f6: U+1F600 gives ":-)", U+1F601 "grin"
X1F6 ==
    [i \in 1..256 |->
        CASE i - 1 = 0 -> <<58, 45, 41>>
          [] i - 1 = 1 -> <<103, 114, 105, 110>>
          [] OTHER -> UNKNOWN]

\* the modules of the store "full", by file name
DataFull ==
    (<<120, 48, 48>> :> X00) @@ (<<120, 48, 48, 46, 56>> :> X00_8)
    @@ (<<120, 48, 51>> :> X03) @@ (<<120, 50, 48>> :> X20)
    @@ (<<120, 52, 101>> :> X4E) @@ (<<120, 49, 102, 54>> :> X1F6)

\* require('./data/' + file): the array the module exports, or a throw
require(t, file) ==
    IF t = "full" /\ file \in DOMAIN DataFull
    THEN [ok |-> TRUE, page |-> DataFull[file]]
    ELSE [ok |-> FALSE, page |-> << >>]

(***************************************************************************)
(* Options                                                                 *)
(***************************************************************************)
\* an options object: every property is undefined or Some(value)
NoOptions ==
    [german |-> undefined, deferredSmartSpacing |-> undefined,
     smartSpacing |-> undefined, skipRanges |-> undefined]

\* the truth value of an optional boolean
truthy(o) == o # undefined /\ o[1]

prepareOptions(options) ==
    [german |-> IF options.german # undefined THEN options.german[1] ELSE FALSE,
     deferredSmartSpacing |->
         IF options.deferredSmartSpacing # undefined
         THEN options.deferredSmartSpacing[1] ELSE FALSE,
     smartSpacing |->
         IF truthy(options.deferredSmartSpacing) THEN TRUE
         ELSE IF options.smartSpacing # undefined THEN options.smartSpacing[1]
              ELSE FALSE,
     skipRanges |->
         IF options.skipRanges # undefined THEN options.skipRanges[1] ELSE << >>]

(***************************************************************************)
(* replacer                                                                *)
(***************************************************************************)
\* lines 70-76: cp lies in one of the inclusive ranges
inSkipRanges(cp, skipRanges) ==
    \E i \in 1..Len(skipRanges) : skipRanges[i][1] <= cp /\ cp <= skipRanges[i][2]

\* line 83
isEmoji(high) == high = 500 \/ high = 502 \/ high = 505

\* isolatedSurrogate with the second band starting one row late
isolatedSurrogateLate(high) == (24 < high /\ high < 30) \/ (216 < high /\ high < 249)

\* line 85
isolatedSurrogate(high) == (24 < high /\ high < 30) \/ (215 < high /\ high < 249)

\* line 87
unsupportedPlane(high) == high > 255 /\ ~isEmoji(high)

\* cacheMiss that never finds the page
cacheMissAlways(cache, row) == TRUE

\* line 91: !dataCache[row]
cacheMiss(cache, row) == row \notin DOMAIN cache

\* lines 96-100: a short page is filled up to 256 entries with "_"
padPage(page) ==
    IF Len(page) < PAGE_SIZE
    THEN [i \in 1..PAGE_SIZE |-> IF i <= Len(page) THEN page[i] ELSE <<UNDERSCORE>>]
    ELSE page

\* line 102
fallbackPage == [i \in 1..PAGE_SIZE |-> <<UNDERSCORE>>]

\* lines 91-104: the page of a row that is not cached yet
loadPage(t, row) ==
    LET got == require(t, pageFile(row))
    IN  IF got.ok THEN padPage(got.page) ELSE fallbackPage

\* lines 108-116: what is emitted for the looked-up newChar
wrap(cp, high, newChar, options) ==
    IF options.smartSpacing /\ cp = EM_DASH
    THEN <<X80, HYPHEN, HYPHEN, X80>>
    ELSE IF \/ ~options.smartSpacing
            \/ newChar = UNKNOWN
            \/ newChar = <<UNDERSCORE>>
            \/ onlyWordChars(newChar)
         THEN newChar
         ELSE IF isEmoji(high)
              THEN <<X80, X81>> \o newChar \o <<X81, X80>>
              ELSE <<X80>> \o trim(newChar) \o <<X80>>

\* lines 91-104: dataCache once the page of row is in it
fetched(cache, row, t) ==
    IF cacheMiss(cache, row) THEN cache @@ (row :> loadPage(t, row)) ELSE cache

\* lines 106-116: the return of replacer after the lookup of newChar
looked(cp, high, row, miss, options, cache2, newChar) ==
    [out |-> wrap(cp, high, newChar, options), cache |-> cache2,
     loads |-> IF miss THEN <<row>> ELSE << >>,
     writes |-> IF miss THEN <<row>> ELSE << >>,
     path |-> "lookup", row |-> row, newChar |-> newChar]

\* line 106: newChar = dataCache[row][low]
lookup(cp, high, row, miss, options, cache2) ==
    looked(cp, high, row, miss, options, cache2, cache2[row][(cp % 256) + 1])

\* replacer(char, options) with the state it reads and writes made explicit:
\* t is the table store and cache the value of dataCache before the call.
\* out is the returned string, cache the value of dataCache afterwards,
\* loads the rows passed to require and writes the rows assigned in
\* dataCache; path and newChar tell which return statement was taken.
replacer(char, options, t, cache) ==
    LET cp == char
        high == cp \div 256
        row == 2 * high + (IF high = 0 /\ options.german THEN 1 ELSE 0)
    IN  IF inSkipRanges(cp, options.skipRanges)
        THEN [out |-> <<char>>, cache |-> cache, loads |-> << >>, writes |-> << >>,
              path |-> "skip", row |-> -1, newChar |-> << >>]
        ELSE IF isolatedSurrogate(high)
        THEN [out |-> << >>, cache |-> cache, loads |-> << >>, writes |-> << >>,
              path |-> "surrogate", row |-> -1, newChar |-> << >>]
        ELSE IF unsupportedPlane(high)
        THEN [out |-> <<UNDERSCORE>>, cache |-> cache, loads |-> << >>,
              writes |-> << >>, path |-> "unsupported", row |-> -1,
              newChar |-> << >>]
        ELSE lookup(cp, high, row, cacheMiss(cache, row), options,
                    fetched(cache, row, t))

(***************************************************************************)
(* unidecode                                                               *)
(***************************************************************************)
\* codepoints with the class ending at \x7E
codepointsFromDel(cp) == cp > 126

\* line 28: /[^\x00-\x7F]/gu matches the code point
codepoints(cp) == cp > 127

\* .replace(/([AOU])\u0308/g, '$1E') and .replace(/([aou])\u0308/g, '$1e'):
\* letters is the bracket class and e the letter that replaces U+0308
RECURSIVE umlautPass(_, _, _, _)
umlautPass(s, i, letters, e) ==
    IF i > Len(s) THEN << >>
    ELSE IF s[i] \in letters /\ At(s, i + 1) = DIAERESIS
         THEN <<s[i], e>> \o umlautPass(s, i + 2, letters, e)
         ELSE <<s[i]>> \o umlautPass(s, i + 1, letters, e)

\* line 53
germanPass(str) ==
    umlautPass(umlautPass(str, 1, {65, 79, 85}, LETTER_E), 1, {97, 111, 117}, LETTER_e)

\* what a scan gives: r is the return of replacer for the match cp and
\* rest the scan of what follows it
joined(cp, r, rest) ==
    [str |-> r.out \o rest.str, cache |-> rest.cache,
     loads |-> r.loads \o rest.loads, writes |-> r.writes \o rest.writes,
     trace |-> <<[cp |-> cp, out |-> r.out, path |-> r.path, row |-> r.row,
                  newChar |-> r.newChar, loaded |-> r.loads # << >>,
                  wrote |-> r.writes # << >>]>> \o rest.trace]

\* a character that codepoints does not match stays
kept(c, rest) == [rest EXCEPT !.str = <<c>> \o @]

\* lines 56-58: str.replace(codepoints, match => replacer(match, options)),
\* from position i on, threading dataCache through the calls of replacer.
\* trace holds one record per match, in order.
RECURSIVE scan(_, _, _, _, _)
RECURSIVE scanAfter(_, _, _, _, _)
scan(s, i, options, t, cache) ==
    IF i > Len(s)
    THEN [str |-> << >>, cache |-> cache, loads |-> << >>, writes |-> << >>,
          trace |-> << >>]
    ELSE IF codepoints(s[i])
         THEN scanAfter(s, i, options, t, replacer(s[i], options, t, cache))
         ELSE kept(s[i], scan(s, i + 1, options, t, cache))

\* the scan from the match at i on, r being the return of replacer for it
scanAfter(s, i, options, t, r) ==
    joined(s[i], r, scan(s, i + 1, options, t, r.cache))

\* returned without the test of deferredSmartSpacing
returnedResolved(options, r) ==
    [ret |-> IF ~options.smartSpacing THEN r.str ELSE resolveSpacing(r.str),
     str |-> r.str, cache |-> r.cache, loads |-> r.loads,
     writes |-> r.writes, trace |-> r.trace]

\* lines 60-64: the return of unidecode, r being the scan of the string
returned(options, r) ==
    [ret |-> IF ~options.smartSpacing \/ options.deferredSmartSpacing
             THEN r.str
             ELSE resolveSpacing(r.str),
     str |-> r.str, cache |-> r.cache, loads |-> r.loads,
     writes |-> r.writes, trace |-> r.trace]

\* lines 48-58
scanned(str, options, t, cache) ==
    scan(IF options.german THEN germanPass(str) ELSE str, 1, options, t, cache)

\* unidecode(inputStr, inputOptions): inputStr is undefined or Some(string).
\* ret is the returned string; str the string before the spacing step.
unidecode(inputStr, inputOptions, t, cache) ==
    IF inputStr = undefined \/ inputStr[1] = << >>
    THEN [ret |-> << >>, str |-> << >>, cache |-> cache, loads |-> << >>,
          writes |-> << >>, trace |-> << >>]
    ELSE returned(prepareOptions(inputOptions),
                  scanned(inputStr[1], prepareOptions(inputOptions), t, cache))

(***************************************************************************)
(* The state machine: the module after loading, and calls of its two       *)
(* entry points.                                                           *)
(***************************************************************************)
Init ==
    /\ tables \in Tables
    /\ dataCache = << >>
    /\ requireCount = << >>
    /\ history = << >>

\* count with one more request for every row of rows
RECURSIVE counted(_, _)
counted(count, rows) ==
    IF rows = << >> THEN count
    ELSE LET row == Head(rows)
             one == IF row \in DOMAIN count
                    THEN [count EXCEPT ![row] = @ + 1]
                    ELSE count @@ (row :> 1)
         IN  counted(one, Tail(rows))

\* the state after a call of unidecode that gave r
Returns(inputStr, inputOptions, r) ==
    /\ dataCache' = r.cache
    /\ requireCount' = counted(requireCount, r.loads)
    /\ history' = Append(history,
                         [fn |-> "unidecode", inputStr |-> inputStr,
                          inputOptions |-> inputOptions, ret |-> r.ret,
                          str |-> r.str, loads |-> r.loads,
                          writes |-> r.writes, trace |-> r.trace])
    /\ UNCHANGED tables

\* a call unidecode(inputStr, inputOptions)
CallUnidecode(inputStr, inputOptions) ==
    Returns(inputStr, inputOptions,
            unidecode(inputStr, inputOptions, tables, dataCache))

\* a call unidecode.resolveSpacing(str)
CallResolveSpacing(str) ==
    /\ history' = Append(history,
                         [fn |-> "resolveSpacing", inputStr |-> Some(str),
                          inputOptions |-> NoOptions, ret |-> resolveSpacing(str),
                          str |-> str, loads |-> << >>, writes |-> << >>,
                          trace |-> << >>])
    /\ UNCHANGED <<tables, dataCache, requireCount>>

\* the caller is done with the results it got: the module keeps its cache
Forget ==
    /\ history # << >>
    /\ history' = << >>
    /\ UNCHANGED <<tables, dataCache, requireCount>>

\* the inputs of a call that starts with no result pending
WhenIdle(inputs) == IF history = << >> THEN inputs ELSE {}

\* the strings over alphabet of length at most n
StringsUpTo(alphabet, n) == UNION {[1..k -> alphabet] : k \in 0..n}

(***************************************************************************)
(* Spec: any number of calls of unidecode, one after the other, on the     *)
(* same module, so that every call finds the cache the earlier ones left.  *)
(***************************************************************************)
MaxLen == 2

\* a DEL U+00E9 U+03FF U+D800 U+20000
Alphabet == {97, 127, 233, 1023, 55296, 131072}

Options ==
    {NoOptions} \cup
    {[german |-> Some(g), deferredSmartSpacing |-> Some(d),
      smartSpacing |-> Some(s), skipRanges |-> Some(k)] :
        g \in BOOLEAN, d \in BOOLEAN, s \in BOOLEAN,
        k \in {<< >>, << <<233, 55296>> >>}}

Inputs == {undefined} \cup {Some(str) : str \in StringsUpTo(Alphabet, MaxLen)}

Next ==
    \/ \E x \in WhenIdle(Inputs), o \in Options : CallUnidecode(x, o)
    \/ Forget

Spec == Init /\ [][Next]_vars

Calls(fn) == {i \in 1..Len(history) : history[i].fn = fn}

isAscii(s) == \A i \in 1..Len(s) : s[i] <= 127

isSurrogate(cp) == cp \in 55296..57343

\* a code point beyond the rows of the tables and outside the emoji rows
isBeyond(cp) == cp \div 256 > 255 /\ cp \div 256 \notin {500, 502, 505}

\* C1: for an input of code points 0x00-0x7F only and for every setting of
\* the options, unidecode returns the input unchanged, asks the table store
\* for no page and writes nothing to the cache; an empty or absent input
\* gives the empty string, without any table access either.
C1_AsciiUnchanged ==
    \A i \in Calls("unidecode") :
        LET c == history[i]
        IN  /\ c.inputStr = undefined =>
                   c.ret = << >> /\ c.loads = << >> /\ c.writes = << >> /\ c.trace = << >>
            /\ c.inputStr # undefined /\ isAscii(c.inputStr[1]) =>
                   /\ c.ret = c.inputStr[1]
                   /\ c.loads = << >>
                   /\ c.writes = << >>
                   /\ c.trace = << >>

\* a call on "a" DEL with german and smartSpacing on and a skip range, made
\* when the cache already holds pages
C1_Witness ==
    /\ DOMAIN dataCache # {}
    /\ \E i \in Calls("unidecode") :
           /\ history[i].inputStr = Some(<<97, 127>>)
           /\ history[i].ret = <<97, 127>>
           /\ history[i].inputOptions.german = Some(TRUE)
           /\ history[i].inputOptions.smartSpacing = Some(TRUE)
           /\ history[i].inputOptions.skipRanges # Some(<< >>)

loadFails(row) == ~require(tables, pageFile(row)).ok

\* what holds of the cache in every state
CacheInv ==
    /\ \A row \in DOMAIN requireCount : requireCount[row] <= 1
    /\ \A row \in DOMAIN dataCache :
           /\ Len(dataCache[row]) = 256
           /\ loadFails(row) => \A k \in 1..256 : dataCache[row][k] = <<UNDERSCORE>>
           /\ ~loadFails(row) =>
                  LET stored == require(tables, pageFile(row)).page
                  IN  \A k \in 1..256 :
                          dataCache[row][k] =
                              IF k <= Len(stored) THEN stored[k] ELSE <<UNDERSCORE>>
    /\ \A i \in Calls("unidecode") :
           \A j \in 1..Len(history[i].trace) :
               LET e == history[i].trace[j]
               IN  e.path = "lookup" /\ loadFails(e.row) => e.newChar = <<UNDERSCORE>>

\* what holds of the cache in every step
CacheStep ==
    \A row \in DOMAIN dataCache :
        /\ row \in DOMAIN dataCache'
        /\ dataCache'[row] = dataCache[row]
        /\ requireCount'[row] = requireCount[row]

\* C7: over any sequence of calls of unidecode, each page is asked of the
\* table store at most once; a cached page has 256 entries, a short stored
\* page filled up with "_" and a page that failed to load made of 256 "_",
\* so that a lookup in it gives "_"; and a cached page is never replaced or
\* removed, nor loaded again.
C7_PageCacheMemoized == [](CacheInv) /\ [][CacheStep]_vars

\* U+03FF is looked up in a page of 256 "_" that an earlier call cached
\* when the load of x03 failed
C7_Witness ==
    \E i \in Calls("unidecode") :
        \E j \in 1..Len(history[i].trace) :
            LET e == history[i].trace[j]
            IN  /\ e.cp = 1023
                /\ e.path = "lookup"
                /\ loadFails(e.row)
                /\ ~e.loaded
                /\ e.newChar = <<UNDERSCORE>>
                /\ requireCount[e.row] = 1
                /\ Len(dataCache[e.row]) = 256

\* what unidecode gives for a string of ASCII characters, lone surrogates
\* and code points beyond the tables
RECURSIVE degraded(_)
degraded(s) ==
    IF s = << >> THEN << >>
    ELSE (IF isSurrogate(Head(s)) THEN << >>
          ELSE IF isBeyond(Head(s)) THEN <<UNDERSCORE>>
               ELSE <<Head(s)>>) \o degraded(Tail(s))

\* C9: a lone surrogate that no skip range holds is replaced by the empty
\* string, and a code point above the rows of the tables and outside the
\* emoji rows by "_", for every setting of the options: no page is loaded
\* for it, the cache is not written, no sentinel is emitted.
C9_GracefulDegradation ==
    \A i \in Calls("unidecode") :
        LET c == history[i]
            o == prepareOptions(c.inputOptions)
        IN  /\ \A j \in 1..Len(c.trace) :
                   LET e == c.trace[j]
                   IN  ~inSkipRanges(e.cp, o.skipRanges) =>
                           /\ isSurrogate(e.cp) =>
                                  e.out = << >> /\ ~e.loaded /\ ~e.wrote
                           /\ isBeyond(e.cp) =>
                                  e.out = <<UNDERSCORE>> /\ ~e.loaded /\ ~e.wrote
            /\ ( /\ c.inputStr # undefined
                 /\ \A k \in 1..Len(c.inputStr[1]) :
                        LET cp == c.inputStr[1][k]
                        IN  /\ cp <= 127 \/ isSurrogate(cp) \/ isBeyond(cp)
                            /\ ~inSkipRanges(cp, o.skipRanges) )
               => c.ret = degraded(c.inputStr[1]) /\ c.loads = << >> /\ c.writes = << >>

\* a call on U+D800 U+20000 with smart spacing on, when pages are cached
C9_Witness ==
    /\ DOMAIN dataCache # {}
    /\ \E i \in Calls("unidecode") :
           /\ history[i].inputStr = Some(<<55296, 131072>>)
           /\ history[i].inputOptions.smartSpacing = Some(TRUE)
           /\ history[i].inputOptions.skipRanges = Some(<< >>)
           /\ history[i].ret = <<UNDERSCORE>>
           /\ Len(history[i].trace) = 2

(***************************************************************************)
(* SpecResolve: one call of an entry point on the freshly loaded module.   *)
(* resolveSpacing gets every string over word characters, punctuation,     *)
(* spaces, tabs and the two sentinels; unidecode gets short inputs with    *)
(* smart spacing on, some of them with the sentinels in a skip range.      *)
(***************************************************************************)
MaxResolveTokens == 5
MaxSpacedLen == 3

\* a space tab \x80 \x81 and the two hyphens "--" of an em-dash
ResolverTokens == {<<97>>, <<32>>, <<9>>, <<128>>, <<129>>, <<45, 45>>}

\* a space U+00A9 U+1F600 U+2014 U+0080 U+0081
SpacedAlphabet == {97, 32, 169, 128512, 8212, 128, 129}

SpacedOptions ==
    {[german |-> Some(g), deferredSmartSpacing |-> undefined,
      smartSpacing |-> Some(TRUE), skipRanges |-> k] :
        g \in BOOLEAN, k \in {undefined, Some(<< <<128, 129>> >>)}}

\* the concatenation of a sequence of strings
RECURSIVE concat(_)
concat(ss) == IF ss = << >> THEN << >> ELSE Head(ss) \o concat(Tail(ss))

\* the strings made of at most n of the tokens
TokenStrings(tokens, n) == {concat(ts) : ts \in StringsUpTo(tokens, n)}

InitResolve == Init /\ tables = "full"

NextResolve ==
    \/ \E s \in WhenIdle(TokenStrings(ResolverTokens, MaxResolveTokens)) :
           CallResolveSpacing(s)
    \/ \E x \in WhenIdle(StringsUpTo(SpacedAlphabet, MaxSpacedLen)), o \in SpacedOptions :
           CallUnidecode(Some(x), o)

SpecResolve == InitResolve /\ [][NextResolve]_vars

isSentinel(c) == c = X80 \/ c = X81

noSentinel(s) == \A i \in 1..Len(s) : ~isSentinel(s[i])

\* s without its sentinels
RECURSIVE withoutSentinels(_)
withoutSentinels(s) ==
    IF s = << >> THEN << >>
    ELSE IF isSentinel(Head(s)) THEN withoutSentinels(Tail(s))
         ELSE <<Head(s)>> \o withoutSentinels(Tail(s))

\* b is a with zero or more spaces inserted
RECURSIVE spacesInserted(_, _)
spacesInserted(a, b) ==
    IF b = << >> THEN a = << >>
    ELSE IF a # << >> /\ Head(a) = Head(b)
         THEN spacesInserted(Tail(a), Tail(b))
         ELSE Head(b) = SP /\ spacesInserted(a, Tail(b))

\* the whitespace character s[i] stands before a \x81, with nothing or only
\* \x80 in between
beforeX81(s, i) ==
    /\ i <= Len(s)
    /\ isSpace(s[i])
    /\ \E k \in (i + 1)..Len(s) :
           s[k] = X81 /\ \A m \in (i + 1)..(k - 1) : s[m] = X80

\* an em-dash marker \x80, "--", \x80 starts at s[i], between two word
\* characters
flankedMarkerAt(s, i) ==
    /\ isWord(At(s, i - 1))
    /\ At(s, i) = X80
    /\ At(s, i + 1) = HYPHEN
    /\ At(s, i + 2) = HYPHEN
    /\ At(s, i + 3) = X80
    /\ isWord(At(s, i + 4))

\* b from j on is s from i on with its sentinels deleted and spaces
\* inserted, where a whitespace character before a \x81 may have become a
\* plain space and a marker between two word characters may have become
\* " - "; every other character of s is in b, unchanged and in order
RECURSIVE rewritten(_, _, _, _)
rewritten(s, i, b, j) ==
    IF i > Len(s)
    THEN \A k \in j..Len(b) : b[k] = SP
    ELSE \/ isSentinel(s[i]) /\ rewritten(s, i + 1, b, j)
         \/ /\ ~isSentinel(s[i])
            /\ At(b, j) = s[i]
            /\ rewritten(s, i + 1, b, j + 1)
         \/ /\ flankedMarkerAt(s, i)
            /\ At(b, j) = SP
            /\ At(b, j + 1) = HYPHEN
            /\ At(b, j + 2) = SP
            /\ rewritten(s, i + 4, b, j + 3)
         \/ /\ beforeX81(s, i)
            /\ At(b, j) = SP
            /\ rewritten(s, i + 1, b, j + 1)
         \/ /\ At(b, j) = SP
            /\ rewritten(s, i, b, j + 1)

\* C2: the output of resolveSpacing holds neither \x80 nor \x81, whatever
\* the input string is, and so unidecode with smartSpacing on and
\* deferredSmartSpacing off never returns a string that holds a sentinel.
C2_NoSentinelInOutput ==
    /\ \A i \in Calls("resolveSpacing") : noSentinel(history[i].ret)
    /\ \A i \in Calls("unidecode") :
           LET o == prepareOptions(history[i].inputOptions)
           IN  o.smartSpacing /\ ~o.deferredSmartSpacing => noSentinel(history[i].ret)

\* a call of resolveSpacing on a string that holds both sentinels next to a
\* word character and does not vanish
C2_Witness ==
    \E i \in Calls("resolveSpacing") :
        LET s == history[i].str
        IN  /\ \E j \in 1..Len(s) : s[j] = X80
            /\ \E j \in 1..Len(s) : s[j] = X81 /\ isWord(At(s, j - 1)) /\ isWord(At(s, j + 1))
            /\ Len(history[i].ret) >= 3

\* C3: resolveSpacing returns a string without sentinels as it is.
C3_NoOpWithoutSentinels ==
    \A i \in Calls("resolveSpacing") :
        noSentinel(history[i].str) => history[i].ret = history[i].str

\* a call on the sentinel-free string a, -, -, a, tab
C3_Witness ==
    \E i \in Calls("resolveSpacing") :
        history[i].str = <<97, 45, 45, 97, 9>> /\ history[i].ret = history[i].str

\* C10 as stated: the output of resolveSpacing is its input with the
\* sentinels deleted and spaces inserted, nothing else.
C10_OnlySpacesInserted ==
    \A i \in Calls("resolveSpacing") :
        spacesInserted(withoutSentinels(history[i].str), history[i].ret)

\* C10 as amended: the output of resolveSpacing, called directly or by
\* unidecode with smartSpacing on, is its input with the sentinels deleted
\* and spaces inserted, up to two rewrites: a whitespace character that
\* stands before a \x81, with nothing or only \x80 in between, may come out
\* as a plain space, and a marker \x80, "--", \x80 between two word
\* characters may come out as " - ". Every other character of the input is
\* in the output, unchanged and in order.
C10_OnlySpacesInsertedAmended ==
    /\ \A i \in Calls("resolveSpacing") :
           rewritten(history[i].str, 1, history[i].ret, 1)
    /\ \A i \in Calls("unidecode") :
           LET o == prepareOptions(history[i].inputOptions)
           IN  o.smartSpacing /\ ~o.deferredSmartSpacing
                   => rewritten(history[i].str, 1, history[i].ret, 1)

\* a call on tab, \x80, \x81, a, "--": the sentinels are deleted, the tab
\* comes out as a space and the hyphens stay
C10_Witness ==
    \E i \in Calls("resolveSpacing") :
        /\ history[i].str = <<9, 128, 129, 97, 45, 45>>
        /\ history[i].ret = <<32, 97, 45, 45>>

(***************************************************************************)
(* SpecScan: one call of unidecode on the freshly loaded module with the   *)
(* store "full", on inputs long enough for two em-dashes around one word   *)
(* character.                                                              *)
(***************************************************************************)
MaxScanLen == 5

\* a space U+00A9 U+1F600 U+2014 U+0080 U+0308
ScanAlphabet == {97, 32, 169, 128512, 8212, 128, 776}

ScanOptions ==
    {[german |-> Some(g), deferredSmartSpacing |-> undefined,
      smartSpacing |-> Some(TRUE), skipRanges |-> k] :
        g \in BOOLEAN, k \in {undefined, Some(<< <<128, 776>> >>)}}

NextScan ==
    \E x \in WhenIdle(StringsUpTo(ScanAlphabet, MaxScanLen)), o \in ScanOptions :
        CallUnidecode(Some(x), o)

SpecScan == InitResolve /\ [][NextScan]_vars

\* s with " - " for every em-dash
RECURSIVE dashesSpaced(_)
dashesSpaced(s) ==
    IF s = << >> THEN << >>
    ELSE (IF Head(s) = EM_DASH THEN <<SP, HYPHEN, SP>> ELSE <<Head(s)>>)
         \o dashesSpaced(Tail(s))

\* s is made of word characters and em-dashes, every em-dash between two
\* word characters
dashesFlanked(s) ==
    \A k \in 1..Len(s) :
        \/ isWord(s[k])
        \/ s[k] = EM_DASH /\ isWord(At(s, k - 1)) /\ isWord(At(s, k + 1))

\* C4: with smartSpacing on, every em-dash that stands between two word
\* characters comes out as " - " between them, also when several em-dashes
\* are one word character apart.
C4_EveryFlankedDashSpaced ==
    \A i \in Calls("unidecode") :
        LET c == history[i]
            o == prepareOptions(c.inputOptions)
        IN  /\ o.smartSpacing /\ ~o.deferredSmartSpacing
            /\ ~inSkipRanges(EM_DASH, o.skipRanges)
            /\ dashesFlanked(c.inputStr[1])
            => c.ret = dashesSpaced(c.inputStr[1])

\* the subsequence of s of the code points above 0x7F that lie in a range
RECURSIVE skippedOf(_, _)
skippedOf(s, skipRanges) ==
    IF s = << >> THEN << >>
    ELSE (IF Head(s) > 127 /\ inSkipRanges(Head(s), skipRanges)
          THEN <<Head(s)>> ELSE << >>) \o skippedOf(Tail(s), skipRanges)

\* a is a subsequence of b
RECURSIVE isSubsequence(_, _)
isSubsequence(a, b) ==
    IF a = << >> THEN TRUE
    ELSE IF b = << >> THEN FALSE
         ELSE IF Head(a) = Head(b) THEN isSubsequence(Tail(a), Tail(b))
              ELSE isSubsequence(a, Tail(b))

\* C5: every code point above 0x7F that lies in a skip range is in the
\* output of unidecode as it was in the input, for every setting of german,
\* smartSpacing and deferredSmartSpacing, and no page is looked up for it.
C5_SkippedUntouched ==
    \A i \in Calls("unidecode") :
        LET c == history[i]
            o == prepareOptions(c.inputOptions)
        IN  /\ isSubsequence(skippedOf(c.inputStr[1], o.skipRanges), c.ret)
            /\ \A j \in 1..Len(c.trace) :
                   inSkipRanges(c.trace[j].cp, o.skipRanges) =>
                       c.trace[j].path = "skip" /\ ~c.trace[j].loaded

\* b ends with a
endsWith(b, a) ==
    Len(b) >= Len(a) /\ SubSeq(b, Len(b) - Len(a) + 1, Len(b)) = a

\* C8: with smartSpacing on, when a character whose replacement is wrapped
\* in sentinels is followed by one space and a word character, the output
\* has the replacement text, one space and the word character: here for
\* that character, the space and the word character at the end of the input.
C8_OneSpaceAfterReplacement ==
    \A i \in Calls("unidecode") :
        LET c == history[i]
            o == prepareOptions(c.inputOptions)
            s == c.inputStr[1]
            n == Len(s)
            e == c.trace[Len(c.trace)]
        IN  /\ o.smartSpacing /\ ~o.deferredSmartSpacing /\ ~o.german
            /\ n >= 3
            /\ s[n - 2] > 127 /\ s[n - 1] = SP /\ isWord(s[n])
            /\ e.path = "lookup" /\ At(e.out, 1) = X80
            => endsWith(c.ret, withoutSentinels(e.out) \o <<SP, s[n]>>)

(***************************************************************************)
(* SpecDeferred: a caller transliterates two inputs with                   *)
(* deferredSmartSpacing and resolves the spacing of the two results put    *)
(* together.                                                               *)
(***************************************************************************)
MaxDeferredLen == 2

\* a space U+00BD U+1F600 U+2014
DeferredAlphabet == {97, 32, 189, 128512, 8212}

DeferredOnly ==
    [german |-> undefined, deferredSmartSpacing |-> Some(TRUE),
     smartSpacing |-> undefined, skipRanges |-> undefined]

SmartOnly ==
    [german |-> undefined, deferredSmartSpacing |-> undefined,
     smartSpacing |-> Some(TRUE), skipRanges |-> undefined]

\* the inputs of one of the two calls of unidecode
Fragment(inputs) == IF Len(history) < 2 THEN inputs ELSE {}

NextDeferred ==
    \/ \E x \in Fragment(StringsUpTo(DeferredAlphabet, MaxDeferredLen)) :
           CallUnidecode(Some(x), DeferredOnly)
    \/ /\ Len(history) = 2
       /\ CallResolveSpacing(history[1].ret \o history[2].ret)

SpecDeferred == InitResolve /\ [][NextDeferred]_vars

\* C6 as stated: resolving the spacing of two deferred results put together
\* gives the two results resolved one by one and joined with a space.
C6_BatchIsJoinWithSpace ==
    Len(history) = 3 =>
        history[3].ret = resolveSpacing(history[1].ret) \o <<SP>>
                             \o resolveSpacing(history[2].ret)

\* C6 as amended: resolving the spacing of two deferred results put
\* together gives what unidecode returns with smartSpacing on for the two
\* inputs put together.
C6_BatchIsWholeInput ==
    Len(history) = 3 =>
        history[3].ret =
            unidecode(Some(history[1].inputStr[1] \o history[2].inputStr[1]),
                      SmartOnly, tables, dataCache).ret

\* "a" and U+00BD: the results "a" and \x80 1/2 \x80 resolve to "a 1/2"
C6_Witness ==
    /\ Len(history) = 3
    /\ history[1].inputStr = Some(<<97>>)
    /\ history[2].inputStr = Some(<<189>>)
    /\ history[2].ret = <<X80, 49, 47, 50, X80>>
    /\ history[3].ret = <<97, SP, 49, 47, 50>>

====
